---- MODULE Spec2Model ----
(***************************************************************************)
(* Power manager of a battery powered field device                         *)
(* (src/src/solar_power_management/application.py, class PowerManager).    *)
(*                                                                         *)
(* Time is counted in whole seconds, voltages in hundredths of a volt (the *)
(* resolution of round(v, 2) in update_voltage), raw samples in            *)
(* thousandths.  Python's None is the integer None (-1): every time,       *)
(* voltage and duration of the program is >= 0.                            *)
(*                                                                         *)
(* The tick loop of the framework calls main_loop again and again; an      *)
(* exception that leaves main_loop ends that tick only.  go_to_sleep is a  *)
(* coroutine that sleeps inside a tick: its waits are the pc positions     *)
(* gts_settle, gts_poll, gts_grace and gts_drain, and the tag store can be *)
(* written by the other apps while it waits.                               *)
(*                                                                         *)
(* The UI object is modelled at the interface application.py calls         *)
(* (ui.update, ui.update_connection_info, ui.low_batt_alarm).              *)
(***************************************************************************)
EXTENDS Integers, Sequences, FiniteSets, TLC

None == -1

\* ------------------------------------------------------------------ bounds
\* Awake time up to which ticks are explored while no sleep is committed.
MaxTime == 320
\* Number of failures injected in one run: an exception of a platform call or
\* of a tag write, or a voltage read that returns None.
MaxFailures == 1
\* The other apps write the tag store during the poll loop of go_to_sleep
\* only while the loop has seen at most this many denials.
MaxVotePolls == 1

\* ------------------------------------------------------- program constants
abs_min_awake_time == 90
time_till_sleep_default == 20
voltage_update_interval == 5
watchdog_reset_interval_secs == 20
soft_watchdog_period_mins == 180
settle_secs == 20
poll_attempts == 60
poll_interval_secs == 5
shutdown_grace_period == 20
hard_shutdown_secs == 60
drain_secs == 40
override_margin_secs == 300
awake_time_default == 90
low_batt_alarm_default == 1100

\* Profile.REGULAR_12V, in the order the profile lists its entries:
\* <<voltage threshold (1/100 V), sleep time (minutes)>>.
sleep_time_threshold_lookup ==
    << <<1320, 25>>, <<1290, 60>>, <<1260, 240>> >>

\* <<voltage threshold (1/100 V), awake time (seconds)>>.
min_awake_time_threshold_lookup ==
    << <<1320, 240>>, <<1290, 120>>, <<1260, 90>> >>

\* The smallest value the configuration schema accepts (minutes).
override_shutdown_permission_mins == 10

\* -------------------------------------------------------------- inputs
\* The other apps of the device whose entries are in the tag store.
Apps == {"app_a"}
\* A flag of an app entry: not present in the dict, or a boolean.
TagVals == {"unset", "False", "True"}
\* Raw voltage samples (1/1000 V) the filtered platform read can return.
RawSamples == {10501, 12996, 13504}
\* Results of get_system_voltage: a sample, None, or an exception.
Raise == -2
VoltageResults == RawSamples \cup {None, Raise}
\* Results of get_immunity_seconds_async.
ImmunityResults == {None, 1, 2}
\* Period of the tick loop, in seconds.
TickSecs == {10}
\* The timestamp a previous run of the process has left in the tag shutdown_at.
stale_shutdown_at == 0
\* No immunity query was made in the step.
NoQuery == -3
\* No call of the platform function was made yet.
NoCall == -4

\* -------------------------------------------------------------- helpers
Max(a, b) == IF a >= b THEN a ELSE b

\* round(x, 2) of a sample given in 1/1000 V, result in 1/100 V
\* (round half to even).
Round2(mv) ==
    LET q == mv \div 10
        r == mv % 10
    IN  IF r < 5 THEN q
        ELSE IF r > 5 THEN q + 1
        ELSE IF q % 2 = 0 THEN q ELSE q + 1

\* sorted(table, key=lambda x: x[0]): stable insertion of each entry.
RECURSIVE InsertByVoltage(_, _)
InsertByVoltage(e, s) ==
    IF s = << >> THEN << e >>
    ELSE IF e[1] < Head(s)[1] THEN << e >> \o s
    ELSE << Head(s) >> \o InsertByVoltage(e, Tail(s))

\* The list taken in the order the configuration lists it.
SortedByVoltage_as_listed(s) == s

RECURSIVE SortedByVoltage(_)
SortedByVoltage(s) ==
    IF s = << >> THEN << >>
    ELSE LET n == Len(s)
         IN  InsertByVoltage(s[n], SortedByVoltage(SubSeq(s, 1, n - 1)))

\* The loop returning the threshold of the entry in place of its value.
RECURSIVE FirstAtOrAbove_returns_threshold(_, _)
FirstAtOrAbove_returns_threshold(s, v) ==
    IF s = << >> THEN None
    ELSE IF v <= Head(s)[1] THEN Head(s)[1]
    ELSE FirstAtOrAbove_returns_threshold(Tail(s), v)

\* The for loop of the two lookups: the first entry, in ascending order of
\* threshold, with voltage <= threshold; None when the loop falls through.
RECURSIVE FirstAtOrAbove(_, _)
FirstAtOrAbove(s, v) ==
    IF s = << >> THEN None
    ELSE IF v <= Head(s)[1] THEN Head(s)[2]
    ELSE FirstAtOrAbove(Tail(s), v)

\* The lookup without the conversion of the minutes to seconds.
sleep_time_of_in_minutes(lookup, last_v) ==
    IF last_v = None THEN None
    ELSE FirstAtOrAbove(SortedByVoltage(lookup), last_v)

\* get_sleep_time for a given self.config.sleep_time_threshold_lookup.
sleep_time_of(lookup, last_v) ==
    IF last_v = None THEN None
    ELSE LET m == FirstAtOrAbove(SortedByVoltage(lookup), last_v)
         IN  IF m = None THEN None ELSE m * 60

\* The lookup without the max() against the floor.
min_awake_time_of_unclamped(lookup, last_v) ==
    IF last_v = None THEN awake_time_default
    ELSE LET a == FirstAtOrAbove(SortedByVoltage(lookup), last_v)
         IN  IF a = None THEN abs_min_awake_time ELSE a

\* The lookup answering None for an unknown voltage, as get_sleep_time does.
min_awake_time_of_none_when_unknown(lookup, last_v) ==
    IF last_v = None THEN None
    ELSE LET a == FirstAtOrAbove(SortedByVoltage(lookup), last_v)
         IN  IF a = None THEN abs_min_awake_time ELSE Max(abs_min_awake_time, a)

\* get_min_awake_time for a given self.config.min_awake_time_threshold_lookup.
min_awake_time_of(lookup, last_v) ==
    IF last_v = None THEN Max(awake_time_default, abs_min_awake_time)
    ELSE LET a == FirstAtOrAbove(SortedByVoltage(lookup), last_v)
         IN  IF a = None THEN abs_min_awake_time ELSE Max(abs_min_awake_time, a)

\* The two lookups under the configured profile.
get_sleep_time(last_v) == sleep_time_of(sleep_time_threshold_lookup, last_v)

get_min_awake_time(last_v) == min_awake_time_of(min_awake_time_threshold_lookup, last_v)


\* ---------------------------------------------------------------- state
VARIABLES
    pc,                         \* position of the process
    now,                        \* time.time()
    start_time,
    last_voltage,
    last_voltage_time,
    scheduled_sleep_time,       \* secs the system is scheduled to sleep for
    scheduled_goto_sleep_time,  \* time the system is scheduled to sleep
    last_watchdog_reset_time,
    about_to_shutdown,
    tags,                       \* tag store: the entries of the other apps
    g_shutdown_requested,       \* tag store: global tag shutdown_requested
    shutdown_at,                \* tag store: global tag shutdown_at
    low_battery_warning_sent,   \* tag store: own tag of the power manager
    conn_info,                  \* ui.connection_info: <<period, next_connection>>
    is_online,                  \* ui.is_online: the value last shown
    hard_timer,                 \* platform: argument of the last schedule_shutdown_async
    startup_arg,                \* platform: argument of the last schedule_startup_async
    wake_armed,                 \* schedule_startup_async returned in this run of go_to_sleep
    shutdown_called,            \* platform: shutdown_async has returned
    polls,                      \* go_to_sleep: index of the ballot poll loop
    failures,                   \* failures injected so far
    ev,                         \* the effects of the last step
    imm_resp,                   \* the answer to the last immunity query of the last step
    always_high,                \* the voltage was above every sleep threshold at every tick
    denied_always,              \* some app has denied the shutdown at all times so far
    commit_min_awake,           \* get_min_awake_time() at the tick that committed the sleep
    victron,                    \* the VictronDevice object, its await_data caller and reset_data task
    arg,                        \* the inputs of a function called on its own
    ret                         \* the function called on its own, and its result

vars == << pc, now, start_time, last_voltage, last_voltage_time,
           scheduled_sleep_time, scheduled_goto_sleep_time,
           last_watchdog_reset_time, about_to_shutdown, tags,
           g_shutdown_requested, shutdown_at, low_battery_warning_sent,
           conn_info, is_online, hard_timer, startup_arg, wake_armed,
           shutdown_called, polls, failures, ev, imm_resp, always_high,
           denied_always, commit_min_awake, victron, arg, ret >>

AppEntry == [shutdown_check_ok : TagVals, shutdown_requested : TagVals]

\* What the platform and the tag store can answer.
\* volt: results of the voltage read; imm: results of the immunity query;
\* fail: platform calls and tag writes can fail; wd_fail: the soft watchdog
\* call can fail.
Environment ==
    [ volt |-> VoltageResults, imm |-> ImmunityResults,
      fail |-> TRUE, wd_fail |-> TRUE ]

\* The fields of self (and of the platform and tag store) a tick works on.
Self ==
    [ start_time |-> start_time,
      last_voltage |-> last_voltage,
      last_voltage_time |-> last_voltage_time,
      scheduled_sleep_time |-> scheduled_sleep_time,
      scheduled_goto_sleep_time |-> scheduled_goto_sleep_time,
      last_watchdog_reset_time |-> last_watchdog_reset_time,
      g_shutdown_requested |-> g_shutdown_requested,
      shutdown_at |-> shutdown_at,
      low_battery_warning_sent |-> low_battery_warning_sent,
      conn_info |-> conn_info,
      is_online |-> is_online,
      about_to_shutdown |-> about_to_shutdown,
      hard_timer |-> hard_timer,
      startup_arg |-> startup_arg,
      wake_armed |-> wake_armed,
      shutdown_called |-> shutdown_called,
      failures |-> failures,
      ev |-> {},
      imm_resp |-> NoQuery,
      exc |-> FALSE,            \* an exception is propagating
      pc |-> "loop" ]

Assign(r) ==
    /\ start_time' = r.start_time
    /\ last_voltage' = r.last_voltage
    /\ last_voltage_time' = r.last_voltage_time
    /\ scheduled_sleep_time' = r.scheduled_sleep_time
    /\ scheduled_goto_sleep_time' = r.scheduled_goto_sleep_time
    /\ last_watchdog_reset_time' = r.last_watchdog_reset_time
    /\ g_shutdown_requested' = r.g_shutdown_requested
    /\ shutdown_at' = r.shutdown_at
    /\ low_battery_warning_sent' = r.low_battery_warning_sent
    /\ conn_info' = r.conn_info
    /\ is_online' = r.is_online
    /\ hard_timer' = r.hard_timer
    /\ startup_arg' = r.startup_arg
    /\ wake_armed' = r.wake_armed
    /\ shutdown_called' = r.shutdown_called
    /\ failures' = r.failures
    /\ ev' = r.ev
    /\ imm_resp' = r.imm_resp
    /\ pc' = r.pc

\* An exception leaves the handler: the tick is over, the loop goes on.
Raised(s) == [s EXCEPT !.exc = TRUE, !.pc = "loop"]

\* A platform call or tag write fails (counted, bounded).
CanFail(s, env) == env.fail /\ s.failures < MaxFailures
Counted(s) == [s EXCEPT !.failures = @ + 1]
Failed(s) == Raised(Counted(s))

\* --------------------------------------------------------- PowerManager
awake_time(s, t) == t - s.start_time

is_ready_to_sleep(s, t) ==
    IF s.scheduled_goto_sleep_time = None THEN FALSE
    ELSE t >= s.scheduled_goto_sleep_time

\* shutdown_permitted with v.get("shutdown_check_ok", False): a missing flag denies.
shutdown_permitted_missing_denies(tgs) ==
    ~ \E a \in DOMAIN tgs : tgs[a].shutdown_check_ok \in {"False", "unset"}

shutdown_permitted(tgs) ==
    ~ \E a \in DOMAIN tgs : tgs[a].shutdown_check_ok = "False"

get_immunity_time_unfiltered(immunity_secs) == immunity_secs

get_immunity_time(immunity_secs) ==
    IF immunity_secs # None /\ immunity_secs <= 1 THEN None ELSE immunity_secs

is_battery_low(last_v) ==
    IF last_v = None THEN FALSE ELSE last_v < low_batt_alarm_default

update_voltage(s, t, env) ==
    IF s.last_voltage_time = None \/ t - s.last_voltage_time > voltage_update_interval
    THEN UNION { LET lv == IF r = Raise THEN s.last_voltage
                           ELSE IF r = None THEN None ELSE Round2(r)
                     s1 == IF r = Raise
                           THEN [Counted(s) EXCEPT !.ev = @ \cup {"volt_raise"}]
                           ELSE IF r = None
                           THEN [Counted(s) EXCEPT !.ev = @ \cup {"volt_none"}]
                           ELSE s
                     u  == IF lv # None
                           THEN [s1 EXCEPT !.last_voltage = lv, !.last_voltage_time = t]
                           ELSE [s1 EXCEPT !.last_voltage = lv]
                 IN  \* get_system_temperature returns, or raises
                     {[u EXCEPT !.ev = @ \cup {"update_voltage_done"}]}
                     \cup (IF CanFail(u, env) THEN {Failed(u)} ELSE {})
               : r \in IF CanFail(s, env) THEN env.volt ELSE env.volt \ {Raise, None} }
    ELSE {s}

config_override_secs_wide_margin ==
    override_shutdown_permission_mins * 60 - 2 * override_margin_secs

config_override_secs == override_shutdown_permission_mins * 60 - override_margin_secs

\* The guards of maybe_schedule_sleep, in the order the code tests them.
never_scheduled(s) == FALSE

already_scheduled(s) == s.scheduled_goto_sleep_time # None

min_awake_floor_only(s, t, tts) == awake_time(s, t) < abs_min_awake_time - tts

min_awake_ignored(s, t, tts) == FALSE

min_awake_not_met(s, t, tts) ==
    awake_time(s, t) < get_min_awake_time(s.last_voltage) - tts

denial_defers_mins_as_secs(s, t, tgs) ==
    /\ shutdown_permitted(tgs) = FALSE
    /\ awake_time(s, t) < override_shutdown_permission_mins - override_margin_secs

denial_defers_forever(s, t, tgs) == shutdown_permitted(tgs) = FALSE

denial_defers(s, t, tgs) ==
    /\ shutdown_permitted(tgs) = FALSE
    /\ awake_time(s, t) < config_override_secs

\* The broadcast made before the minimum awake guard is tested.
maybe_schedule_sleep_broadcasts_first(s, sleep_time, t, tgs, env) ==
    LET s1 == [s EXCEPT !.ev = @ \cup {"mss_call"}]
        tts == time_till_sleep_default
    IN
    IF already_scheduled(s1) THEN {s1}
    ELSE
      LET s2 == [s1 EXCEPT !.g_shutdown_requested = "True",
                           !.ev = @ \cup {"mss_broadcast"}]
      IN  (IF CanFail(s1, env) THEN {Failed(s1)} ELSE {})
          \cup
          (IF min_awake_not_met(s2, t, tts) \/ denial_defers(s2, t, tgs)
           THEN {s2}
           ELSE { LET s3 == [s2 EXCEPT !.imm_resp = i]
                      s4 == [s3 EXCEPT !.scheduled_goto_sleep_time = t + tts,
                                       !.scheduled_sleep_time = sleep_time,
                                       !.ev = @ \cup {"commit"}]
                  IN  IF get_immunity_time(i) # None THEN s3
                      ELSE IF sleep_time = None THEN Raised(s4)
                      ELSE [s4 EXCEPT !.conn_info = << sleep_time, tts + sleep_time >>,
                                      !.ev = @ \cup {"conn_info"}]
                : i \in env.imm })

\* The commit made with the remaining wait of the minimum awake time in place
\* of time_till_sleep.
maybe_schedule_sleep_remaining_wait(s, sleep_time, t, tgs, env) ==
    LET s1 == [s EXCEPT !.ev = @ \cup {"mss_call"}]
        tts == time_till_sleep_default
    IN
    IF already_scheduled(s1) THEN {s1}
    ELSE IF min_awake_not_met(s1, t, tts) THEN {s1}
    ELSE
      LET s2 == [s1 EXCEPT !.g_shutdown_requested = "True",
                           !.ev = @ \cup {"mss_broadcast"}]
      IN  (IF CanFail(s1, env) THEN {Failed(s1)} ELSE {})
          \cup
          (IF denial_defers(s2, t, tgs)
           THEN {s2}
           ELSE { LET s3 == [s2 EXCEPT !.imm_resp = i]
                      s4 == [s3 EXCEPT !.scheduled_goto_sleep_time =
                                           t + get_min_awake_time(s.last_voltage)
                                             - awake_time(s, t),
                                       !.scheduled_sleep_time = sleep_time,
                                       !.ev = @ \cup {"commit"}]
                  IN  IF get_immunity_time(i) # None THEN s3
                      \* time_till_sleep + None is a TypeError
                      ELSE IF sleep_time = None THEN Raised(s4)
                      ELSE [s4 EXCEPT !.conn_info = << sleep_time, tts + sleep_time >>,
                                      !.ev = @ \cup {"conn_info"}]
                : i \in env.imm })

maybe_schedule_sleep(s, sleep_time, t, tgs, env) ==
    LET s1 == [s EXCEPT !.ev = @ \cup {"mss_call"}]
        tts == time_till_sleep_default
    IN
    IF already_scheduled(s1) THEN {s1}
    ELSE IF min_awake_not_met(s1, t, tts) THEN {s1}
    ELSE
      LET s2 == [s1 EXCEPT !.g_shutdown_requested = "True",
                           !.ev = @ \cup {"mss_broadcast"}]
      IN  (IF CanFail(s1, env) THEN {Failed(s1)} ELSE {})
          \cup
          (IF denial_defers(s2, t, tgs)
           THEN {s2}
           ELSE { LET s3 == [s2 EXCEPT !.imm_resp = i]
                      s4 == [s3 EXCEPT !.scheduled_goto_sleep_time = t + tts,
                                       !.scheduled_sleep_time = sleep_time,
                                       !.ev = @ \cup {"commit"}]
                  IN  IF get_immunity_time(i) # None THEN s3
                      \* time_till_sleep + None is a TypeError
                      ELSE IF sleep_time = None THEN Raised(s4)
                      ELSE [s4 EXCEPT !.conn_info = << sleep_time, tts + sleep_time >>,
                                      !.ev = @ \cup {"conn_info"}]
                : i \in env.imm })

\* schedule_next_startup with the failure of the platform call swallowed.
schedule_next_startup_swallowed(s, env) ==
    LET sst == IF s.scheduled_sleep_time = None
               THEN get_sleep_time(s.last_voltage)
               ELSE s.scheduled_sleep_time
        s1  == [s EXCEPT !.scheduled_sleep_time = sst,
                         !.startup_arg = sst,
                         !.ev = @ \cup {"startup_call"}]
    IN  {[s1 EXCEPT !.wake_armed = TRUE]}
        \cup (IF CanFail(s1, env) THEN {[s1 EXCEPT !.failures = @ + 1]} ELSE {})

schedule_next_startup(s, env) ==
    LET sst == IF s.scheduled_sleep_time = None
               THEN get_sleep_time(s.last_voltage)
               ELSE s.scheduled_sleep_time
        s1  == [s EXCEPT !.scheduled_sleep_time = sst,
                         !.startup_arg = sst,
                         !.ev = @ \cup {"startup_call"}]
    IN  {[s1 EXCEPT !.wake_armed = TRUE]}
        \cup (IF CanFail(s1, env) THEN {Failed(s1)} ELSE {})

\* go_to_sleep up to its first wait (asyncio.sleep(20)).
go_to_sleep_begin(s, env) ==
    LET s1 == [s EXCEPT !.ev = @ \cup {"gts_enter"}, !.wake_armed = FALSE]
    IN  {[s1 EXCEPT !.g_shutdown_requested = "True",
                    !.ev = @ \cup {"gts_broadcast"},
                    !.pc = "gts_settle"]}
        \cup (IF CanFail(s1, env) THEN {Failed(s1)} ELSE {})

\* maybe_reset_soft_watchdog without the else clause: a failed call also moves
\* last_watchdog_reset_time.
maybe_reset_soft_watchdog_marks_failure(s, t, env) ==
    LET flag == IF s.last_watchdog_reset_time # None
                THEN t - s.last_watchdog_reset_time > watchdog_reset_interval_secs
                ELSE TRUE
        s1 == [s EXCEPT !.ev = @ \cup {"wd_attempt"}]
    IN  IF flag
        THEN {[s1 EXCEPT !.hard_timer = soft_watchdog_period_mins * 60,
                         !.last_watchdog_reset_time = t]}
             \cup (IF env.wd_fail /\ CanFail(s1, env)
                   THEN {Counted([s1 EXCEPT !.ev = @ \cup {"wd_fail"},
                                            !.last_watchdog_reset_time = t])}
                   ELSE {})
        ELSE {s}

maybe_reset_soft_watchdog(s, t, env) ==
    LET flag == IF s.last_watchdog_reset_time # None
                THEN t - s.last_watchdog_reset_time > watchdog_reset_interval_secs
                ELSE TRUE
        s1 == [s EXCEPT !.ev = @ \cup {"wd_attempt"}]
    IN  IF flag
        THEN {[s1 EXCEPT !.hard_timer = soft_watchdog_period_mins * 60,
                         !.last_watchdog_reset_time = t]}
             \cup (IF env.wd_fail /\ CanFail(s1, env)
                   THEN {Counted([s1 EXCEPT !.ev = @ \cup {"wd_fail"}])} ELSE {})
        ELSE {s}

\* assess_power dropping the schedule when the voltage gives no sleep time.
assess_power_cancels_on_recovery(s, t, tgs, env) ==
    LET s_ == [s EXCEPT !.ev = @ \cup {"assess_power"}]
        s0 == IF s.start_time = None THEN [s_ EXCEPT !.start_time = t] ELSE s_
    IN  UNION { IF u.exc THEN {u}
                ELSE IF get_sleep_time(u.last_voltage) = None
                THEN {[u EXCEPT !.scheduled_goto_sleep_time = None,
                                !.scheduled_sleep_time = None]}
                ELSE IF is_ready_to_sleep(u, t) THEN go_to_sleep_begin(u, env)
                ELSE maybe_schedule_sleep(u, get_sleep_time(u.last_voltage), t, tgs, env)
              : u \in update_voltage(s0, t, env) }

assess_power(s, t, tgs, env) ==
    LET s_ == [s EXCEPT !.ev = @ \cup {"assess_power"}]
        s0 == IF s.start_time = None THEN [s_ EXCEPT !.start_time = t] ELSE s_
    IN  UNION { IF u.exc THEN {u}
                ELSE IF is_ready_to_sleep(u, t) THEN go_to_sleep_begin(u, env)
                ELSE LET sleep_time == get_sleep_time(u.last_voltage)
                     IN  IF sleep_time = None THEN {u}
                         ELSE maybe_schedule_sleep(u, sleep_time, t, tgs, env)
              : u \in update_voltage(s0, t, env) }

\* The notification sent on every tick with a low battery, latched or not.
low_battery_notification_every_tick(s) ==
    IF is_battery_low(s.last_voltage)
    THEN [s EXCEPT !.low_battery_warning_sent = "True", !.ev = @ \cup {"notify"}]
    ELSE [s EXCEPT !.low_battery_warning_sent = "False"]

\* The low battery notification of main_loop.
low_battery_notification(s) ==
    IF is_battery_low(s.last_voltage)
    THEN IF s.low_battery_warning_sent # "True"
         THEN [s EXCEPT !.low_battery_warning_sent = "True", !.ev = @ \cup {"notify"}]
         ELSE s
    ELSE [s EXCEPT !.low_battery_warning_sent = "False"]

\* self.ui.update(..., not self.about_to_shutdown, ...): ui.is_online.
ui_update(s) ==
    [s EXCEPT !.is_online = IF s.about_to_shutdown THEN "False" ELSE "True",
              !.ev = @ \cup {"ui_update"}]

\* main_loop calling go_to_sleep when an app has requested the shutdown.
main_loop_sleeps_on_request(s, t, tgs, env) ==
    UNION { UNION { IF a.exc \/ a.pc # "loop" THEN {a}
                    ELSE LET shutdown_requested ==
                                 \E k \in DOMAIN tgs : tgs[k].shutdown_requested = "True"
                             b == ui_update(low_battery_notification(a))
                         IN  IF shutdown_requested
                             THEN go_to_sleep_begin(b, env)
                             ELSE {b}
                  : a \in IF w.exc THEN {w} ELSE assess_power(w, t, tgs, env) }
          : w \in maybe_reset_soft_watchdog(s, t, env) }

main_loop(s, t, tgs, env) ==
    UNION { UNION { IF a.exc \/ a.pc # "loop" THEN {a}
                    ELSE LET shutdown_requested ==
                                 \E k \in DOMAIN tgs : tgs[k].shutdown_requested = "True"
                             b == ui_update(low_battery_notification(a))
                         IN  IF shutdown_requested
                             THEN maybe_schedule_sleep(b, get_sleep_time(b.last_voltage),
                                                       t, tgs, env)
                             ELSE {b}
                  : a \in IF w.exc THEN {w} ELSE assess_power(w, t, tgs, env) }
          : w \in maybe_reset_soft_watchdog(s, t, env) }


\* setup tries update_voltage up to three times, until a voltage is known.
RECURSIVE setup_voltage(_, _, _, _)
setup_voltage(s, t, env, n) ==
    IF n = 0 \/ s.exc \/ s.last_voltage # None THEN {s}
    ELSE UNION { setup_voltage(u, t, env, n - 1) : u \in update_voltage(s, t, env) }

\* The failed reads of the three attempts count as one injected failure, and
\* as none when a later attempt gets a voltage.
setup_attempts == 3

\* setup without the reset of the two global tags.
setup_keeps_global_tags(s, t, env) ==
    UNION { LET w1 == w
                w0 == IF CanFail(w1, env)
                      THEN [w1 EXCEPT !.failures = MaxFailures - setup_attempts]
                      ELSE w1
            IN  IF w.exc THEN {w}
                ELSE { [r EXCEPT !.failures = IF r.exc \/ r.last_voltage = None
                                              THEN w1.failures + 1 ELSE w1.failures]
                     : r \in setup_voltage(w0, t, env, setup_attempts) }
          : w \in maybe_reset_soft_watchdog(s, t, env) }

setup(s, t, env) ==
    UNION { LET w1 == [w EXCEPT !.g_shutdown_requested = "False",
                                !.shutdown_at = None]
                w0 == IF CanFail(w1, env)
                      THEN [w1 EXCEPT !.failures = MaxFailures - setup_attempts]
                      ELSE w1
            IN  IF w.exc THEN {w}
                ELSE { [r EXCEPT !.failures = IF r.exc \/ r.last_voltage = None
                                              THEN w1.failures + 1 ELSE w1.failures]
                     : r \in setup_voltage(w0, t, env, setup_attempts) }
          : w \in maybe_reset_soft_watchdog(s, t, env) }

\* The voltage is strictly above every configured sleep threshold.
IsHigh(v) ==
    /\ v # None
    /\ \A i \in DOMAIN sleep_time_threshold_lookup :
           v > sleep_time_threshold_lookup[i][1]

\* --------------------------------------------------------- VictronDevice
\* reset_data: reset_after = 60, asyncio.sleep(10).
reset_after == 60
reset_poll_secs == 10

\* VictronDevice.__init__: no scanner, no data, the event clear, no task.
\* waiter is the position of the caller of await_data, result what the call
\* returned, reset_wake the end of the asyncio.sleep(10) of reset_data, and
\* blocked_after_reset records an await_data that blocked after a timeout
\* had cleared last_data.
VictronDevice_init ==
    [ scanner |-> FALSE, last_data |-> None, last_data_time |-> None,
      data_recv_event |-> FALSE, reset_data_task |-> FALSE,
      reset_wake |-> None, waiter |-> "idle", result |-> NoCall,
      blocked_after_reset |-> FALSE ]

\* asyncio.Event.set: the flag is set and every waiter is woken.
event_set(v) ==
    [v EXCEPT !.data_recv_event = TRUE,
              !.waiter = IF @ = "waiting" THEN "woken" ELSE @]

\* asyncio.Event.clear: the flag is reset; a waiter already woken stays woken.
event_clear(v) == [v EXCEPT !.data_recv_event = FALSE]

\* recv_data: a callback of the scanner; result is what parse_data gave
\* (None, an exception, or a reading).
recv_data(v, result, t) ==
    IF result \in {None, Raise} THEN v
    ELSE event_set([v EXCEPT !.last_data = result, !.last_data_time = t])

\* The pass of reset_data that clears the data whatever its age.
reset_data_pass_at_any_age(v, t) ==
    LET w == [v EXCEPT !.reset_wake = t + reset_poll_secs]
    IN  IF v.last_data # None
        THEN event_clear([w EXCEPT !.last_data = None])
        ELSE w

\* reset_data: one pass of the while loop, after asyncio.sleep(10) is over.
reset_data_pass(v, t) ==
    LET w == [v EXCEPT !.reset_wake = t + reset_poll_secs]
    IN  IF v.last_data # None /\ t - v.last_data_time > reset_after
        THEN event_clear([w EXCEPT !.last_data = None])
        ELSE w

\* start: nothing when the scanner exists; else the reset_data task is
\* created if there is none, and the scanner is created and started.
start(v, t) ==
    IF v.scanner THEN v
    ELSE [v EXCEPT !.scanner = TRUE,
                   !.reset_data_task = TRUE,
                   !.reset_wake = IF v.reset_data_task THEN @ ELSE t + reset_poll_secs]

\* stop: the scanner is stopped and dropped, the reset_data task cancelled.
stop(v) ==
    [v EXCEPT !.scanner = FALSE, !.reset_data_task = FALSE, !.reset_wake = None]

\* await self.data_recv_event.wait(): returns at once when the event is set,
\* else the caller waits; then return self.last_data.
event_wait_and_return(v) ==
    IF v.data_recv_event
    THEN [v EXCEPT !.waiter = "returned", !.result = v.last_data]
    ELSE [v EXCEPT !.waiter = "waiting",
                   !.blocked_after_reset = @ \/ v.last_data_time # None]

\* ---------------------------------------------------------------- Init
\* No function is called on its own while the process runs.
NoArg ==
    [kind |-> "none", lookup |-> << >>, v |-> None, v2 |-> None,
     store |-> [a \in {} |-> None]]
NoRet == [fn |-> "none", val |-> None]

Init ==
    /\ pc = "setup"
    /\ now = 1
    /\ start_time = None
    /\ last_voltage = None
    /\ last_voltage_time = None
    /\ scheduled_sleep_time = None
    /\ scheduled_goto_sleep_time = None
    /\ last_watchdog_reset_time = None
    /\ about_to_shutdown = FALSE
    /\ tags \in [Apps -> AppEntry]
    /\ g_shutdown_requested \in {"unset", "True"}
    /\ shutdown_at \in {None, stale_shutdown_at}
    /\ low_battery_warning_sent = "unset"
    /\ conn_info = << None, None >>
    /\ is_online = "unset"
    /\ hard_timer = NoCall
    /\ startup_arg = NoCall
    /\ wake_armed = FALSE
    /\ shutdown_called = FALSE
    /\ polls = 0
    /\ failures = 0
    /\ ev = {}
    /\ imm_resp = NoQuery
    /\ always_high = TRUE
    /\ commit_min_awake = None
    /\ victron = VictronDevice_init
    /\ denied_always = ~ shutdown_permitted(tags)
    /\ arg = NoArg
    /\ ret = NoRet

\* -------------------------------------------------------------- actions
Setup(env) ==
    /\ pc = "setup"
    /\ \E r \in setup(Self, now, env) :
          /\ Assign([r EXCEPT !.pc = IF r.exc THEN "exited" ELSE "loop"])
          /\ tags' = IF r.exc THEN tags
                     ELSE [a \in Apps |-> [tags[a] EXCEPT !.shutdown_requested = "False"]]
    /\ UNCHANGED << now, about_to_shutdown, polls, always_high, commit_min_awake, victron, denied_always,
                    arg, ret >>

\* The loop sleeps d seconds and calls main_loop.
Tick(env) ==
    /\ pc = "loop"
    /\ \E d \in TickSecs :
          /\ \/ scheduled_goto_sleep_time # None
             \/ start_time = None
             \/ now + d - start_time <= MaxTime
          /\ now' = now + d
          /\ \E r \in main_loop(Self, now + d, tags, env) :
                /\ Assign(r)
                /\ always_high' = (always_high /\ IsHigh(r.last_voltage))
                /\ commit_min_awake' =
                       IF scheduled_goto_sleep_time = None
                          /\ r.scheduled_goto_sleep_time # None
                       THEN get_min_awake_time(r.last_voltage)
                       ELSE commit_min_awake
    /\ UNCHANGED << about_to_shutdown, tags, polls, denied_always, victron,
                    arg, ret >>

\* go_to_sleep: asyncio.sleep(20) after the broadcast is over.
GtsSettle ==
    /\ pc = "gts_settle"
    /\ now' = now + settle_secs
    /\ pc' = "gts_poll"
    /\ polls' = 0
    /\ ev' = {}
    /\ imm_resp' = NoQuery
    /\ UNCHANGED << start_time, last_voltage, last_voltage_time,
                    scheduled_sleep_time, scheduled_goto_sleep_time,
                    last_watchdog_reset_time, about_to_shutdown, tags,
                    g_shutdown_requested, shutdown_at, low_battery_warning_sent,
                    conn_info, is_online, hard_timer, startup_arg, wake_armed,
                    shutdown_called, failures, always_high, commit_min_awake, victron, denied_always,
                    arg, ret >>

\* The published deadline set further away than the grace wait.
gts_publish_and_arm_late_deadline(s, t, env) ==
    LET s1 == [s EXCEPT !.shutdown_at = t + hard_shutdown_secs,
                        !.ev = @ \cup {"publish_shutdown_at"}]
    IN  (IF CanFail(s, env) THEN {Failed(s)} ELSE {})
        \cup { IF r.exc THEN r ELSE [r EXCEPT !.pc = "gts_grace"]
             : r \in schedule_next_startup(s1, env) }

\* go_to_sleep after the poll loop: publish shutdown_at, arm the next wake.
gts_publish_and_arm(s, t, env) ==
    LET s1 == [s EXCEPT !.shutdown_at = t + shutdown_grace_period,
                        !.ev = @ \cup {"publish_shutdown_at"}]
    IN  (IF CanFail(s, env) THEN {Failed(s)} ELSE {})
        \cup { IF r.exc THEN r ELSE [r EXCEPT !.pc = "gts_grace"]
             : r \in schedule_next_startup(s1, env) }

\* The poll loop without its break: all 60 passes sleep.
poll_again_without_break(n, tgs) == n < poll_attempts

\* for _ in range(60): the pass n + 1 of the loop reads a denial and sleeps.
poll_again(n, tgs) == n < poll_attempts /\ ~ shutdown_permitted(tgs)

\* go_to_sleep: one pass of the poll loop, or what follows the loop.
GtsPoll(env) ==
    /\ pc = "gts_poll"
    /\ IF poll_again(polls, tags)
       THEN /\ polls' = polls + 1
            /\ now' = now + poll_interval_secs
            /\ ev' = {"poll_denied"}
            /\ imm_resp' = NoQuery
            /\ UNCHANGED << pc, start_time, last_voltage, last_voltage_time,
                            scheduled_sleep_time, scheduled_goto_sleep_time,
                            last_watchdog_reset_time, g_shutdown_requested,
                            shutdown_at, low_battery_warning_sent, conn_info, is_online,
                            hard_timer, startup_arg, wake_armed,
                            shutdown_called, failures >>
       ELSE /\ \E r \in gts_publish_and_arm([Self EXCEPT !.pc = "gts_poll"], now, env) :
                  Assign(r)
            /\ UNCHANGED << now, polls >>
    /\ UNCHANGED << about_to_shutdown, tags, always_high, commit_min_awake, victron, denied_always,
                    arg, ret >>

\* The power cut issued before the hard timer is armed.
gts_cut_power_before_hard_timer(s, env) ==
    LET s1 == [s EXCEPT !.shutdown_called = TRUE,
                        !.ev = @ \cup {"shutdown_call"}]
    IN  (IF CanFail(s, env) THEN {Failed(s), Failed(s1)} ELSE {})
        \cup {[s1 EXCEPT !.hard_timer = hard_shutdown_secs,
                         !.ev = @ \cup {"hard_arm"},
                         !.pc = "gts_drain"]}

\* go_to_sleep after the grace wait: hard timer, then the power cut.
gts_cut_power(s, env) ==
    LET s1 == [s EXCEPT !.hard_timer = hard_shutdown_secs,
                        !.ev = @ \cup {"hard_arm"}]
    IN  (IF CanFail(s, env) THEN {Failed(s), Failed(s1)} ELSE {})
        \cup {[s1 EXCEPT !.shutdown_called = TRUE,
                         !.ev = @ \cup {"shutdown_call"},
                         !.pc = "gts_drain"]}

GtsGrace(env) ==
    /\ pc = "gts_grace"
    /\ now' = now + shutdown_grace_period
    /\ \E r \in gts_cut_power([Self EXCEPT !.pc = "gts_grace"], env) : Assign(r)
    /\ UNCHANGED << about_to_shutdown, tags, polls, always_high, commit_min_awake, victron, denied_always,
                    arg, ret >>

\* go_to_sleep: the drain wait, then CancelledError ends the process.
GtsDrain ==
    /\ pc = "gts_drain"
    /\ now' = now + drain_secs
    /\ pc' = "exited"
    /\ ev' = {}
    /\ imm_resp' = NoQuery
    /\ UNCHANGED << start_time, last_voltage, last_voltage_time,
                    scheduled_sleep_time, scheduled_goto_sleep_time,
                    last_watchdog_reset_time, about_to_shutdown, tags,
                    g_shutdown_requested, shutdown_at, low_battery_warning_sent,
                    conn_info, is_online, hard_timer, startup_arg, wake_armed,
                    shutdown_called, polls, failures, always_high, commit_min_awake, victron, denied_always,
                    arg, ret >>

\* Another app writes one flag of its entry in the tag store.
Voter ==
    /\ pc # "exited"
    /\ pc = "gts_poll" => polls <= MaxVotePolls
    /\ \E a \in Apps, val \in {"False", "True"} :
          \/ tags' = [tags EXCEPT ![a].shutdown_check_ok = val]
          \/ tags' = [tags EXCEPT ![a].shutdown_requested = val]
    /\ tags' # tags
    /\ denied_always' = (denied_always /\ ~ shutdown_permitted(tags'))
    /\ ev' = {}
    /\ imm_resp' = NoQuery
    /\ UNCHANGED << pc, now, start_time, last_voltage, last_voltage_time,
                    scheduled_sleep_time, scheduled_goto_sleep_time,
                    last_watchdog_reset_time, about_to_shutdown,
                    g_shutdown_requested, shutdown_at, low_battery_warning_sent,
                    conn_info, is_online, hard_timer, startup_arg, wake_armed,
                    shutdown_called, polls, failures, always_high, commit_min_awake, victron,
                    arg, ret >>

\* The hook without self.ui.is_online.update(False).
on_shutdown_at_keeps_online ==
    /\ pc \notin {"setup", "exited"}
    /\ shutdown_at # None
    /\ ~ about_to_shutdown
    /\ about_to_shutdown' = TRUE
    /\ ev' = {}
    /\ imm_resp' = NoQuery
    /\ UNCHANGED << pc, now, start_time, last_voltage, last_voltage_time,
                    scheduled_sleep_time, scheduled_goto_sleep_time,
                    last_watchdog_reset_time, tags,
                    g_shutdown_requested, shutdown_at, low_battery_warning_sent,
                    conn_info, is_online, hard_timer, startup_arg, wake_armed,
                    shutdown_called, polls, failures, always_high, commit_min_awake, victron, denied_always,
                    arg, ret >>

\* The shutdown_at hook of the framework.
on_shutdown_at ==
    /\ pc \notin {"setup", "exited"}
    /\ shutdown_at # None
    /\ ~ about_to_shutdown
    /\ about_to_shutdown' = TRUE
    /\ is_online' = "False"
    /\ ev' = {}
    /\ imm_resp' = NoQuery
    /\ UNCHANGED << pc, now, start_time, last_voltage, last_voltage_time,
                    scheduled_sleep_time, scheduled_goto_sleep_time,
                    last_watchdog_reset_time, tags,
                    g_shutdown_requested, shutdown_at, low_battery_warning_sent,
                    conn_info, hard_timer, startup_arg, wake_armed,
                    shutdown_called, polls, failures, always_high, commit_min_awake, victron, denied_always,
                    arg, ret >>

Next ==
    \/ Setup(Environment)
    \/ Tick(Environment)
    \/ GtsSettle
    \/ GtsPoll(Environment)
    \/ GtsGrace(Environment)
    \/ GtsDrain
    \/ Voter
    \/ on_shutdown_at

Spec == Init /\ [][Next]_vars

TypeOK ==
    /\ pc \in {"setup", "loop", "gts_settle", "gts_poll", "gts_grace", "gts_drain", "exited"}
    /\ tags \in [Apps -> AppEntry]
    /\ polls \in 0..poll_attempts
    /\ failures \in 0..MaxFailures


\* ------------------------------------------------- second specification
\* The voltage stays at or below a sleep threshold, the platform reports no
\* immunity, no call fails and the voter never changes its vote.
LiveEnv ==
    [ volt |-> {10501}, imm |-> {None, 1}, fail |-> FALSE, wd_fail |-> FALSE ]

LiveInit ==
    /\ Init
    /\ \A a \in Apps : tags[a].shutdown_check_ok = "False"

TickLive == Tick(LiveEnv)

NextLive ==
    \/ Setup(LiveEnv)
    \/ TickLive
    \/ GtsSettle
    \/ GtsPoll(LiveEnv)
    \/ GtsGrace(LiveEnv)
    \/ GtsDrain
    \/ on_shutdown_at

\* The framework keeps calling main_loop, and a coroutine that waits resumes.
LiveSpec ==
    /\ LiveInit
    /\ [][NextLive]_vars
    /\ WF_vars(Setup(LiveEnv))
    /\ WF_vars(TickLive)
    /\ WF_vars(GtsSettle)
    /\ WF_vars(GtsPoll(LiveEnv))
    /\ WF_vars(GtsGrace(LiveEnv))
    /\ WF_vars(GtsDrain)

\* ------------------------------------------------- fair specification
\* The voltage stays at or below a sleep threshold, the platform reports no
\* immunity and no call fails; the voters write their flags as they like.
FairEnv ==
    [ volt |-> {10501, 12996}, imm |-> {None, 1}, fail |-> FALSE, wd_fail |-> FALSE ]

TickFair == Tick(FairEnv)

NextFair ==
    \/ Setup(FairEnv)
    \/ TickFair
    \/ GtsSettle
    \/ GtsPoll(FairEnv)
    \/ GtsGrace(FairEnv)
    \/ GtsDrain
    \/ Voter
    \/ on_shutdown_at

\* The framework keeps calling main_loop, and a coroutine that waits resumes;
\* nothing is assumed of the voters.
FairSpec ==
    /\ Init
    /\ [][NextFair]_vars
    /\ WF_vars(Setup(FairEnv))
    /\ WF_vars(TickFair)
    /\ WF_vars(GtsSettle)
    /\ WF_vars(GtsPoll(FairEnv))
    /\ WF_vars(GtsGrace(FairEnv))
    /\ WF_vars(GtsDrain)

\* ------------------------------------------------ VictronDevice on its own
\* One VictronDevice, one caller of await_data, the scanner's callbacks and
\* the reset_data task, interleaved at the points where the event loop can
\* switch between them.  The clock does not move between Event.set and the
\* resumption of the woken caller: both belong to consecutive passes of the
\* event loop.
MaxVictronTime == 101

\* parse_data: the readings a callback can deliver.
Readings == {1, 2}
ParseResults == {None, Raise} \cup Readings

VictronInit ==
    /\ pc = "victron"
    /\ now = 1
    /\ victron = VictronDevice_init
    /\ start_time = None
    /\ last_voltage = None
    /\ last_voltage_time = None
    /\ scheduled_sleep_time = None
    /\ scheduled_goto_sleep_time = None
    /\ last_watchdog_reset_time = None
    /\ about_to_shutdown = FALSE
    /\ tags = [a \in Apps |-> [shutdown_check_ok |-> "unset", shutdown_requested |-> "unset"]]
    /\ g_shutdown_requested = "unset"
    /\ shutdown_at = None
    /\ low_battery_warning_sent = "unset"
    /\ conn_info = << None, None >>
    /\ is_online = "unset"
    /\ hard_timer = NoCall
    /\ startup_arg = NoCall
    /\ wake_armed = FALSE
    /\ shutdown_called = FALSE
    /\ polls = 0
    /\ failures = 0
    /\ ev = {}
    /\ imm_resp = NoQuery
    /\ always_high = TRUE
    /\ commit_min_awake = None
    /\ denied_always = FALSE
    /\ arg = NoArg
    /\ ret = NoRet

\* What no step of the VictronDevice touches.
VictronFrame ==
    UNCHANGED << pc, start_time, last_voltage, last_voltage_time,
                 scheduled_sleep_time, scheduled_goto_sleep_time,
                 last_watchdog_reset_time, about_to_shutdown, tags,
                 g_shutdown_requested, shutdown_at, low_battery_warning_sent,
                 conn_info, is_online, hard_timer, startup_arg, wake_armed,
                 shutdown_called, polls, failures, imm_resp, always_high,
                 denied_always, commit_min_awake, arg, ret >>

\* time.time() moves on.
VictronClock ==
    /\ pc = "victron"
    /\ victron.waiter # "woken"
    /\ now + reset_poll_secs <= MaxVictronTime
    /\ now' = now + reset_poll_secs
    /\ ev' = {}
    /\ UNCHANGED victron
    /\ VictronFrame

\* The scanner calls recv_data.
RecvData ==
    /\ pc = "victron"
    /\ victron.scanner
    /\ \E result \in ParseResults :
          /\ victron' = recv_data(victron, result, now)
          /\ ev' = IF result \in Readings THEN {"recv_stored"} ELSE {"recv_ignored"}
    /\ UNCHANGED now
    /\ VictronFrame

\* The reset_data task wakes from asyncio.sleep(10) and makes one pass.
ResetData ==
    /\ pc = "victron"
    /\ victron.reset_data_task
    /\ now >= victron.reset_wake
    /\ victron' = reset_data_pass(victron, now)
    /\ ev' = IF victron.last_data # None /\ victron'.last_data = None
             THEN {"reset_cleared"} ELSE {"reset_kept"}
    /\ UNCHANGED now
    /\ VictronFrame

\* await_data is called: start(), which yields in scanner.start() when it
\* creates the scanner, then the wait on the event.
AwaitData ==
    /\ pc = "victron"
    /\ victron.waiter \in {"idle", "returned"}
    /\ LET v0 == [victron EXCEPT !.result = NoCall, !.blocked_after_reset = FALSE]
           v1 == start(v0, now)
           v2 == IF victron.scanner THEN event_wait_and_return(v1)
                 ELSE [v1 EXCEPT !.waiter = "starting"]
       IN  /\ victron' = v2
           /\ ev' = {"await_called"}
                     \cup (IF v2.waiter = "returned" THEN {"await_returned"} ELSE {})
    /\ UNCHANGED now
    /\ VictronFrame

\* await_data goes on after start(): the wait on the event.
AwaitStarted ==
    /\ pc = "victron"
    /\ victron.waiter = "starting"
    /\ victron' = event_wait_and_return(victron)
    /\ ev' = IF victron'.waiter = "returned" THEN {"await_returned"} ELSE {}
    /\ UNCHANGED now
    /\ VictronFrame

\* The caller woken by Event.set resumes: return self.last_data.
AwaitResume ==
    /\ pc = "victron"
    /\ victron.waiter = "woken"
    /\ victron' = [victron EXCEPT !.waiter = "returned", !.result = victron.last_data]
    /\ ev' = {"await_returned"}
    /\ UNCHANGED now
    /\ VictronFrame

\* stop is called between two calls of await_data.
Stop ==
    /\ pc = "victron"
    /\ victron.scanner
    /\ victron.waiter \in {"idle", "returned"}
    /\ victron' = stop(victron)
    /\ ev' = {"stopped"}
    /\ UNCHANGED now
    /\ VictronFrame

NextVictron ==
    \/ VictronClock
    \/ RecvData
    \/ ResetData
    \/ AwaitData
    \/ AwaitStarted
    \/ AwaitResume
    \/ Stop

VictronSpec == VictronInit /\ [][NextVictron]_vars

\* ------------------------------------------------- third specification
\* The pure functions of PowerManager, each called on its own on inputs drawn
\* from bounded sets: the two threshold lookups on a configured lookup list
\* and a voltage, shutdown_permitted on a tag store.

\* Longest lookup list.
MaxEntries == 3
\* Voltage thresholds (1/100 V) and values (minutes of sleep, seconds of awake
\* time) of the entries of a lookup list; the schema accepts values from 0.
ThresholdVolts == {1260, 1290, 1320}
LookupValues == {0, 60, 240}
\* The lists of the configuration: those a Custom profile can hold, in any
\* order, duplicates included, and the two lists of Profile.REGULAR_12V.
Lookups ==
    UNION { [1..n -> ThresholdVolts \X LookupValues] : n \in 0..MaxEntries }
    \cup {sleep_time_threshold_lookup, min_awake_time_threshold_lookup}
\* self.last_voltage: unknown, or a rounded voltage (1/100 V).
Volts == {None, 1200, 1260, 1290, 1295, 1300, 1320, 1350}
\* self._tag_values: the dict entries of any set of apps.
BallotApps == {"app_a", "app_b"}
Stores == UNION { [S -> AppEntry] : S \in SUBSET BallotApps }

\* The pairs of known voltages, the lower first.
VoltPairs == { q \in (Volts \ {None}) \X (Volts \ {None}) : q[1] < q[2] }

LookupArg(l, v, v2) ==
    [kind |-> IF v2 = None THEN "lookup" ELSE "pair",
     lookup |-> l, v |-> v, v2 |-> v2, store |-> NoArg.store]

BallotArg(st) ==
    [kind |-> "ballot", lookup |-> << >>, v |-> None, v2 |-> None, store |-> st]

\* The input is one call of a lookup, two calls of get_sleep_time under one
\* configuration, or one call of shutdown_permitted.
FunInit ==
    /\ pc = "call"
    /\ \/ \E l \in Lookups, v \in Volts : arg = LookupArg(l, v, None)
       \/ \E l \in Lookups, p \in VoltPairs : arg = LookupArg(l, p[1], p[2])
       \/ \E st \in Stores : arg = BallotArg(st)
    /\ ret = NoRet
    /\ now = 1
    /\ start_time = None
    /\ last_voltage = None
    /\ last_voltage_time = None
    /\ scheduled_sleep_time = None
    /\ scheduled_goto_sleep_time = None
    /\ last_watchdog_reset_time = None
    /\ about_to_shutdown = FALSE
    /\ tags = [a \in Apps |-> [shutdown_check_ok |-> "unset", shutdown_requested |-> "unset"]]
    /\ g_shutdown_requested = "unset"
    /\ shutdown_at = None
    /\ low_battery_warning_sent = "unset"
    /\ conn_info = << None, None >>
    /\ is_online = "unset"
    /\ hard_timer = NoCall
    /\ startup_arg = NoCall
    /\ wake_armed = FALSE
    /\ shutdown_called = FALSE
    /\ polls = 0
    /\ failures = 0
    /\ ev = {}
    /\ imm_resp = NoQuery
    /\ always_high = TRUE
    /\ commit_min_awake = None
    /\ victron = VictronDevice_init
    /\ denied_always = FALSE

\* A call returns: only pc and ret change.
Return(fn, val) ==
    /\ pc = "call"
    /\ pc' = "return"
    /\ ret' = [fn |-> fn, val |-> val]
    /\ UNCHANGED << arg, now, start_time, last_voltage, last_voltage_time,
                    scheduled_sleep_time, scheduled_goto_sleep_time,
                    last_watchdog_reset_time, about_to_shutdown, tags,
                    g_shutdown_requested, shutdown_at, low_battery_warning_sent,
                    conn_info, is_online, hard_timer, startup_arg, wake_armed,
                    shutdown_called, polls, failures, ev, imm_resp,
                    always_high, commit_min_awake, victron, denied_always >>

CallGetSleepTime ==
    /\ arg.kind = "lookup"
    /\ Return("get_sleep_time", sleep_time_of(arg.lookup, arg.v))

CallGetSleepTimeTwice ==
    /\ arg.kind = "pair"
    /\ Return("get_sleep_time_twice",
              << sleep_time_of(arg.lookup, arg.v), sleep_time_of(arg.lookup, arg.v2) >>)

CallGetMinAwakeTime ==
    /\ arg.kind = "lookup"
    /\ Return("get_min_awake_time", min_awake_time_of(arg.lookup, arg.v))

CallShutdownPermitted ==
    /\ arg.kind = "ballot"
    /\ Return("shutdown_permitted", shutdown_permitted(arg.store))

NextFun ==
    \/ CallGetSleepTime
    \/ CallGetSleepTimeTwice
    \/ CallGetMinAwakeTime
    \/ CallShutdownPermitted

FunSpec == FunInit /\ [][NextFun]_vars

\* ---------------------------------------------------------------- claims
\* A sleep is committed in this step.
Committed == scheduled_goto_sleep_time = None /\ scheduled_goto_sleep_time' # None
\* The step is a tick of main_loop (only a tick moves the clock from "loop").
IsTick == pc = "loop" /\ now' # now
Awake == now - start_time

\* C1: schedule_startup_async is never called with None.
C1_StartupNeverNone == startup_arg # None

\* C2: the hard timer and shutdown_async are issued only after
\* schedule_startup_async has returned in the same run of go_to_sleep; when it
\* raises, the run ends without them, the sleep stays due, and the next tick
\* that gets as far as the readiness test enters go_to_sleep again.
C2_StartupFailed == "startup_call" \in ev /\ ~ wake_armed

C2_WakeArmBlocksPowerCut ==
    /\ [](("hard_arm" \in ev \/ "shutdown_call" \in ev) => wake_armed)
    /\ [](C2_StartupFailed =>
            /\ pc = "loop"
            /\ "hard_arm" \notin ev /\ "shutdown_call" \notin ev
            /\ scheduled_goto_sleep_time # None
            /\ now >= scheduled_goto_sleep_time)
    /\ [][(IsTick /\ scheduled_goto_sleep_time # None
                  /\ now' >= scheduled_goto_sleep_time
                  /\ failures' = failures)
          => "gts_enter" \in ev']_vars

C2_Witness == C2_StartupFailed /\ pc = "loop" /\ ~ shutdown_called

\* C3: scheduled_sleep_time and scheduled_goto_sleep_time are both set or
\* both None.
C3_BothOrNeither ==
    (scheduled_sleep_time = None) <=> (scheduled_goto_sleep_time = None)

\* C4: while the voltage has been above every sleep threshold at every tick,
\* no sleep is scheduled.
C4_HighVoltageNeverSchedules ==
    always_high => scheduled_goto_sleep_time = None

\* C5: a sleep is committed only at a tick whose awake time is at least
\* get_min_awake_time() - 20.
C5_MinAwakeGuard ==
    [][Committed =>
         now' - start_time' >= get_min_awake_time(last_voltage') - time_till_sleep_default]_vars

C5_Witness ==
    /\ "commit" \in ev
    /\ Awake = get_min_awake_time(last_voltage) - time_till_sleep_default
    /\ get_min_awake_time(last_voltage) > abs_min_awake_time

\* C6 as stated: no commit at a tick with a denial and an awake time below
\* override_shutdown_permission_mins minutes.
C6_DenialDefersUntilConfigured ==
    [][(IsTick /\ ~ shutdown_permitted(tags)
               /\ now' - start_time' < override_shutdown_permission_mins * 60)
       => ~ Committed]_vars

\* C6 amended: no commit at a tick with a denial and an awake time below
\* override_shutdown_permission_mins * 60 - 300 seconds.
C6_DenialDefersUntilOverride ==
    [][(IsTick /\ ~ shutdown_permitted(tags)
               /\ now' - start_time' < override_shutdown_permission_mins * 60
                                        - override_margin_secs)
       => ~ Committed]_vars

\* A tick passed the minimum awake guard and was deferred by the denial.
C6_Witness ==
    /\ "mss_broadcast" \in ev
    /\ imm_resp = NoQuery
    /\ scheduled_goto_sleep_time = None
    /\ ~ shutdown_permitted(tags)
    /\ Awake >= get_min_awake_time(last_voltage) - time_till_sleep_default
    /\ Awake < config_override_secs

C8_NoShutdownBeforeOverrideMins ==
    ("shutdown_call" \in ev /\ denied_always)
        => Awake >= override_shutdown_permission_mins * 60

C8_Witness == "shutdown_call" \in ev /\ denied_always

\* C9: the answer to the immunity query decides the commit: an answer above
\* 1 second defers it, None or an answer of at most 1 second does not.
Immune(i) == i # None /\ i > 1

C9_ImmunityDefers ==
    imm_resp # NoQuery =>
        /\ Immune(imm_resp) => scheduled_goto_sleep_time = None /\ "commit" \notin ev
        /\ ~ Immune(imm_resp) => "commit" \in ev /\ scheduled_goto_sleep_time # None

C9_Witness ==
    /\ Immune(imm_resp)
    /\ "mss_broadcast" \in ev
    /\ scheduled_goto_sleep_time = None

\* C10: a call of maybe_schedule_sleep made while a sleep is scheduled changes
\* neither schedule field, broadcasts nothing, makes no immunity query and
\* publishes no connection info.
C10_SchedulingIdempotent ==
    [][(scheduled_goto_sleep_time # None /\ "mss_call" \in ev')
       => /\ scheduled_goto_sleep_time' = scheduled_goto_sleep_time
          /\ scheduled_sleep_time' = scheduled_sleep_time
          /\ conn_info' = conn_info
          /\ g_shutdown_requested' = g_shutdown_requested
          /\ "mss_broadcast" \notin ev'
          /\ "commit" \notin ev' /\ "conn_info" \notin ev'
          /\ imm_resp' = NoQuery]_vars

C10_Witness ==
    /\ "mss_call" \in ev
    /\ "commit" \notin ev
    /\ scheduled_goto_sleep_time # None
    /\ now < scheduled_goto_sleep_time

\* C11: shutdown_permitted returns False exactly when at least one app entry
\* of the tag store carries shutdown_check_ok = False; an entry without the
\* flag permits, and so does a store without app entries.
C11_Deniers == { a \in DOMAIN arg.store : arg.store[a].shutdown_check_ok = "False" }

C11_BallotConsensus ==
    ret.fn = "shutdown_permitted" =>
        /\ (ret.val = FALSE) <=> (Cardinality(C11_Deniers) >= 1)
        /\ ret.val \in BOOLEAN
        /\ DOMAIN arg.store = {} => ret.val = TRUE
        /\ (\A a \in DOMAIN arg.store : arg.store[a].shutdown_check_ok = "unset")
              => ret.val = TRUE

\* One app has no flag, the other denies.
C11_Witness ==
    /\ ret.fn = "shutdown_permitted"
    /\ ret.val = FALSE
    /\ \E a, b \in DOMAIN arg.store :
          /\ arg.store[a].shutdown_check_ok = "unset"
          /\ arg.store[b].shutdown_check_ok = "False"

\* C12: a re-arm of the soft watchdog is attempted only when more than the
\* reset interval has passed since the last successful one; a failed attempt
\* leaves last_watchdog_reset_time unchanged, so that the re-arm is due again
\* at the next tick, and every tick at which it is due attempts it; the failure
\* stays inside maybe_reset_soft_watchdog: the tick goes on to assess_power and
\* setup goes on to reset the tags.
C12_RearmDue(t) ==
    \/ last_watchdog_reset_time = None
    \/ t - last_watchdog_reset_time > watchdog_reset_interval_secs

C12_WatchdogRearm ==
    /\ [][("wd_attempt" \in ev' /\ last_watchdog_reset_time # None)
            => now' - last_watchdog_reset_time > watchdog_reset_interval_secs]_vars
    /\ [][("wd_attempt" \in ev' /\ "wd_fail" \notin ev')
            => last_watchdog_reset_time' = now']_vars
    /\ [][("wd_attempt" \notin ev')
            => last_watchdog_reset_time' = last_watchdog_reset_time]_vars
    /\ [][("wd_fail" \in ev')
            => last_watchdog_reset_time' = last_watchdog_reset_time]_vars
    /\ [](("wd_fail" \in ev) => C12_RearmDue(now))
    /\ [][(IsTick /\ C12_RearmDue(now')) => "wd_attempt" \in ev']_vars
    /\ [][(IsTick /\ "wd_fail" \in ev') => "assess_power" \in ev']_vars
    /\ [][(pc = "setup" /\ "wd_fail" \in ev') => g_shutdown_requested' = "False"]_vars

\* A re-arm failed at a tick after an earlier one had succeeded.
C12_Witness ==
    /\ "wd_fail" \in ev
    /\ "assess_power" \in ev
    /\ last_watchdog_reset_time # None
    /\ now - last_watchdog_reset_time > watchdog_reset_interval_secs

\* C13: while a sleep is committed and the process has not exited, every step
\* in which time passes and after which more than the reset interval has
\* passed since the last successful re-arm attempts a re-arm of the soft
\* watchdog, the waits of go_to_sleep included.
C13_WatchdogWhilePending ==
    [][(/\ scheduled_goto_sleep_time # None
        /\ now' # now
        /\ pc' # "exited"
        /\ C12_RearmDue(now'))
       => "wd_attempt" \in ev']_vars

\* C14: the poll loop of go_to_sleep reads the ballot at most 60 times, 5 s
\* apart; it goes on polling only after a read that shows a denial, leaves at
\* the first read that shows consensus and leaves after the 60th denied read;
\* whatever the voters write, a pass of the loop can always be taken and every
\* pass that stays in the loop counts towards the 60.
C14_PollStep == pc = "gts_poll" /\ (now' # now \/ pc' # pc)

C14_BoundedPoll ==
    /\ [](pc = "gts_poll" => polls \in 0..poll_attempts)
    /\ [](pc = "gts_poll" => ENABLED GtsPoll(Environment))
    /\ [][(C14_PollStep /\ pc' = "gts_poll")
            => /\ ~ shutdown_permitted(tags)
               /\ polls < poll_attempts
               /\ polls' = polls + 1
               /\ now' = now + poll_interval_secs]_vars
    /\ [][(C14_PollStep /\ pc' # "gts_poll")
            => /\ shutdown_permitted(tags) \/ polls = poll_attempts
               /\ now' = now /\ polls' = polls]_vars
    /\ [][(pc = "gts_poll" /\ ~ C14_PollStep) => polls' = polls]_vars

\* The 60th read showed a denial and go_to_sleep went on to the shutdown steps.
C14_Witness ==
    /\ pc = "gts_grace"
    /\ polls = poll_attempts
    /\ ~ shutdown_permitted(tags)
    /\ "publish_shutdown_at" \in ev

\* C15: for every known voltage v and every sleep-time list, get_sleep_time
\* returns 60 times the minutes of the entry with the smallest threshold that
\* is >= v (the first listed of entries with equal thresholds); it returns
\* None when v is above every threshold or the list is empty; and for a v at
\* or below the lowest threshold it returns the lowest threshold's duration.
C15_Candidates == { i \in DOMAIN arg.lookup : arg.lookup[i][1] >= arg.v }

C15_Smallest(S) ==
    CHOOSE i \in S : \A j \in S :
        \/ arg.lookup[i][1] < arg.lookup[j][1]
        \/ arg.lookup[i][1] = arg.lookup[j][1] /\ i <= j

C15_ThresholdLookup ==
    (pc = "return" /\ ret.fn = "get_sleep_time" /\ arg.v # None) =>
        /\ C15_Candidates = {} <=> ret.val = None
        /\ C15_Candidates # {} =>
               ret.val = 60 * arg.lookup[C15_Smallest(C15_Candidates)][2]
        /\ (arg.lookup # << >> /\ \A i \in DOMAIN arg.lookup : arg.v <= arg.lookup[i][1]) =>
               ret.val = 60 * arg.lookup[C15_Smallest(DOMAIN arg.lookup)][2]

C15_Witness ==
    /\ pc = "return"
    /\ ret.fn = "get_sleep_time"
    /\ arg.lookup = << <<1320, 60>>, <<1290, 240>>, <<1260, 0>> >>
    /\ arg.v = 1295
    /\ ret.val = 3600

\* C16, as stated: with the list of the Regular 12V profile (13.2 V: 25 min,
\* 12.9 V: 60 min, 12.6 V: 240 min) get_sleep_time gives 25 min at 13.00 V,
\* 60 min at 12.95 V, 240 min at 12.00 V, and None at 13.50 V.
C16_RegularProfileScenario ==
    (/\ pc = "return"
     /\ ret.fn = "get_sleep_time"
     /\ arg.lookup = sleep_time_threshold_lookup) =>
        /\ arg.v = 1300 => ret.val = 25 * 60
        /\ arg.v = 1295 => ret.val = 60 * 60
        /\ arg.v = 1200 => ret.val = 240 * 60
        /\ arg.v = 1350 => ret.val = None

\* C16, amended: with the list of the Regular 12V profile get_sleep_time
\* gives 25 min at 13.00 V and at 12.95 V (the smallest threshold at or above
\* 12.95 V is 13.2 V), 60 min at 12.90 V, 240 min at 12.00 V, and None at
\* 13.50 V.
C16_RegularProfileAmended ==
    (/\ pc = "return"
     /\ ret.fn = "get_sleep_time"
     /\ arg.lookup = sleep_time_threshold_lookup) =>
        /\ arg.v = 1300 => ret.val = 25 * 60
        /\ arg.v = 1295 => ret.val = 25 * 60
        /\ arg.v = 1290 => ret.val = 60 * 60
        /\ arg.v = 1200 => ret.val = 240 * 60
        /\ arg.v = 1350 => ret.val = None

C16_Witness ==
    /\ pc = "return"
    /\ ret.fn = "get_sleep_time"
    /\ arg.lookup = sleep_time_threshold_lookup
    /\ arg.v = 1295
    /\ ret.val = 1500

\* The two calls of get_sleep_time under one list both returned a decision.
C17_BothDecided ==
    /\ pc = "return"
    /\ ret.fn = "get_sleep_time_twice"
    /\ arg.v < arg.v2
    /\ ret.val[1] # None
    /\ ret.val[2] # None

\* C17, as stated: given a list with ascending thresholds and ascending
\* durations, for two voltages v1 < v2 that both yield a decision the sleep
\* time for v1 is never shorter than the sleep time for v2.
C17_MonotoneAscendingDurations ==
    (/\ C17_BothDecided
     /\ \A i, j \in DOMAIN arg.lookup :
            i < j => /\ arg.lookup[i][1] < arg.lookup[j][1]
                     /\ arg.lookup[i][2] <= arg.lookup[j][2])
    => ret.val[1] >= ret.val[2]

\* C17, amended: given a list in which an entry with a higher threshold
\* never has a longer duration (ascending thresholds, descending durations),
\* for two voltages v1 < v2 that both yield a decision the sleep time for v1
\* is never shorter than the sleep time for v2.
C17_MonotoneDescendingDurations ==
    (/\ C17_BothDecided
     /\ \A i, j \in DOMAIN arg.lookup :
            arg.lookup[i][1] < arg.lookup[j][1] => arg.lookup[i][2] >= arg.lookup[j][2])
    => ret.val[1] >= ret.val[2]

C17_Witness ==
    /\ C17_BothDecided
    /\ arg.lookup = << <<1260, 240>>, <<1290, 60>>, <<1320, 0>> >>
    /\ arg.v = 1200
    /\ arg.v2 = 1295
    /\ ret.val = << 14400, 0 >>

\* C18: for every voltage, known or unknown, and every minimum-awake list,
\* get_min_awake_time returns an integer of at least 90 s: the value of the
\* matching entry when that is 90 or more, 90 when it is less, and exactly 90
\* with an empty list.
C18_MinAwakeFloor ==
    (pc = "return" /\ ret.fn = "get_min_awake_time") =>
        /\ ret.val \in Nat
        /\ ret.val >= 90
        /\ arg.lookup = << >> => ret.val = 90
        /\ (arg.v # None /\ C15_Candidates # {}) =>
               LET a == arg.lookup[C15_Smallest(C15_Candidates)][2]
               IN  ret.val = IF a >= 90 THEN a ELSE 90

C18_Witness ==
    /\ pc = "return"
    /\ ret.fn = "get_min_awake_time"
    /\ arg.lookup = << <<1290, 60>> >>
    /\ arg.v = 1260
    /\ ret.val = 90

\* C19: while the voltage is unknown get_min_awake_time returns the default
\* awake time, never None, and get_sleep_time returns None.
C19_UnknownVoltage ==
    (pc = "return" /\ arg.kind = "lookup" /\ arg.v = None) =>
        /\ ret.fn = "get_min_awake_time" =>
               ret.val = awake_time_default /\ ret.val # None
        /\ ret.fn = "get_sleep_time" => ret.val = None

C19_Witness ==
    /\ pc = "return"
    /\ ret.fn = "get_min_awake_time"
    /\ arg.lookup = min_awake_time_threshold_lookup
    /\ arg.v = None
    /\ ret.val = 90

\* C20: when the voltage fetch of update_voltage fails (it raises, or the
\* platform read gives no value) after a value was accepted, last_voltage
\* keeps that value and is not reset to None, update_voltage returns
\* normally, and the tick goes on with the retained value.
C20_FetchFailed == "volt_raise" \in ev' \/ "volt_none" \in ev'

C20_FailedFetchKeepsValue ==
    /\ [][(C20_FetchFailed /\ last_voltage # None)
            => last_voltage' = last_voltage /\ last_voltage' # None]_vars
    /\ [][(C20_FetchFailed /\ IsTick) => "update_voltage_done" \in ev']_vars

C22_AboutToShutdownLatch ==
    /\ about_to_shutdown = FALSE
    /\ [][about_to_shutdown => about_to_shutdown']_vars
    /\ [][(about_to_shutdown' # about_to_shutdown)
            => /\ about_to_shutdown' = TRUE
               /\ shutdown_at # None
               /\ "ui_update" \notin ev'
               /\ UNCHANGED << pc, now, last_voltage, scheduled_sleep_time,
                               scheduled_goto_sleep_time, tags, shutdown_at >>]_vars
    /\ [](about_to_shutdown => is_online = "False")

\* The latch is set, after a tick had shown the device online, and is kept
\* through the power cut.
C22_Witness ==
    /\ about_to_shutdown
    /\ is_online = "False"
    /\ shutdown_called
    /\ pc = "gts_drain"

\* C23: the effects of a run of go_to_sleep occur in the order broadcast of
\* shutdown_requested = True, settle wait, ballot polling, publish of
\* shutdown_at, schedule_startup_async, schedule_shutdown_async(60),
\* shutdown_async, drain wait, end of the process; no step is executed unless
\* every earlier step of the run has completed.
C23_Positions ==
    { << "setup", "loop" >>, << "setup", "exited" >>,
      << "loop", "gts_settle" >>, << "gts_settle", "gts_poll" >>,
      << "gts_poll", "gts_grace" >>, << "gts_grace", "gts_drain" >>,
      << "gts_drain", "exited" >>,
      \* an exception leaves go_to_sleep and the tick
      << "gts_poll", "loop" >>, << "gts_grace", "loop" >> }

C23_ShutdownOrder ==
    /\ [][pc' # pc => << pc, pc' >> \in C23_Positions]_vars
    /\ [][("gts_broadcast" \in ev')
            => pc = "loop" /\ pc' = "gts_settle" /\ g_shutdown_requested' = "True"]_vars
    /\ [][(pc = "loop" /\ pc' = "gts_settle") => "gts_broadcast" \in ev']_vars
    /\ [][(pc = "gts_settle" /\ pc' # pc) => now' = now + settle_secs /\ polls' = 0]_vars
    /\ [][("publish_shutdown_at" \in ev')
            => /\ pc = "gts_poll"
               /\ shutdown_permitted(tags) \/ polls = poll_attempts
               /\ shutdown_at' = now + shutdown_grace_period]_vars
    /\ [][("startup_call" \in ev') => "publish_shutdown_at" \in ev']_vars
    /\ [][(pc = "gts_poll" /\ pc' = "gts_grace")
            => "startup_call" \in ev' /\ wake_armed']_vars
    /\ [][("hard_arm" \in ev')
            => /\ pc = "gts_grace"
               /\ wake_armed
               /\ now' = now + shutdown_grace_period
               /\ hard_timer' = hard_shutdown_secs]_vars
    /\ [][("shutdown_call" \in ev') => "hard_arm" \in ev']_vars
    /\ [][(pc' = "gts_drain" /\ pc # "gts_drain") => "shutdown_call" \in ev']_vars
    /\ [][(pc = "gts_drain" /\ pc' # pc)
            => shutdown_called /\ now' = now + drain_secs /\ pc' = "exited"]_vars

\* A run of go_to_sleep that polled a denial to the end has ended the process.
C23_Witness ==
    /\ pc = "exited"
    /\ shutdown_called
    /\ wake_armed
    /\ polls = poll_attempts
    /\ g_shutdown_requested = "True"
    /\ hard_timer = hard_shutdown_secs

\* C24: a tag write that raises inside go_to_sleep does not end the run: when
\* the broadcast of shutdown_requested raises the run goes on to the settle
\* wait, and when the publish of shutdown_at raises the run goes on to arm
\* the next wake and to the grace wait before the power cut.
C24_SoftFailuresProceed ==
    /\ [][("gts_enter" \in ev') => pc' = "gts_settle"]_vars
    /\ [][(pc = "gts_poll" /\ failures' > failures /\ "startup_call" \notin ev')
            => pc' = "gts_grace" /\ wake_armed']_vars

\* C25: a committed sleep is not cancellable.  Once scheduled_goto_sleep_time
\* is set no step changes or clears it; once the clock has reached it,
\* is_ready_to_sleep stays true; and every later assess_power that gets past
\* update_voltage enters go_to_sleep, whatever the voltage, the immunity and
\* the flags of the voters are.
C25_Ready == scheduled_goto_sleep_time # None /\ now >= scheduled_goto_sleep_time

C25_NotCancellable ==
    /\ [][scheduled_goto_sleep_time # None
            => scheduled_goto_sleep_time' = scheduled_goto_sleep_time]_vars
    /\ [][C25_Ready => C25_Ready']_vars
    /\ [][(/\ "assess_power" \in ev'
            /\ "update_voltage_done" \in ev'
            /\ C25_Ready')
            => "gts_enter" \in ev']_vars
    /\ [][("gts_enter" \in ev') => (IsTick /\ C25_Ready')]_vars

\* go_to_sleep is entered with the voltage back above every sleep threshold
\* and a voter denying.
C25_Witness ==
    /\ "gts_enter" \in ev
    /\ IsHigh(last_voltage)
    /\ ~ always_high
    /\ ~ shutdown_permitted(tags)

\* C26: go_to_sleep is entered only at a tick before which a sleep was
\* committed and at which now >= scheduled_goto_sleep_time, and the process
\* is inside go_to_sleep only with such a sleep; a tick at which an app has
\* published shutdown_requested = True and no sleep is due does not enter
\* go_to_sleep: when it runs to its end it calls maybe_schedule_sleep.
C26_Requested == \E a \in DOMAIN tags : tags[a].shutdown_requested = "True"

C26_OnlyFromReadyToSleep ==
    /\ [][("gts_enter" \in ev')
            => /\ IsTick
               /\ scheduled_goto_sleep_time # None
               /\ now' >= scheduled_goto_sleep_time]_vars
    /\ [](pc \in {"gts_settle", "gts_poll", "gts_grace", "gts_drain"}
            => scheduled_goto_sleep_time # None /\ now >= scheduled_goto_sleep_time)
    /\ [][(/\ IsTick
            /\ C26_Requested
            /\ (scheduled_goto_sleep_time = None \/ now' < scheduled_goto_sleep_time))
            => /\ "gts_enter" \notin ev'
               /\ pc' = "loop"
               /\ ("ui_update" \in ev' => "mss_call" \in ev')]_vars

\* An app has requested the shutdown, the voltage gives no sleep time, and
\* the tick has made its scheduling attempt without entering go_to_sleep.
C26_Witness ==
    /\ C26_Requested
    /\ IsHigh(last_voltage)
    /\ "ui_update" \in ev
    /\ "mss_call" \in ev
    /\ "gts_enter" \notin ev
    /\ pc = "loop"
    /\ scheduled_goto_sleep_time = None

\* C27: a step commits a sleep exactly when maybe_schedule_sleep reaches its
\* last lines, at a tick, and the commit sets scheduled_goto_sleep_time to
\* now + 20 and scheduled_sleep_time to get_sleep_time() for the voltage of
\* that tick, both in that step.
C27_CommitValues ==
    /\ [][Committed
            => /\ IsTick
               /\ "commit" \in ev'
               /\ scheduled_goto_sleep_time' = now' + time_till_sleep_default
               /\ scheduled_sleep_time' = get_sleep_time(last_voltage')]_vars
    /\ [][("commit" \in ev') => Committed]_vars
    /\ [][scheduled_sleep_time' # scheduled_sleep_time
            => Committed \/ "startup_call" \in ev']_vars

\* A commit at a tick at which the remaining wait of the minimum awake time
\* is not 20 s.
C27_Witness ==
    /\ "commit" \in ev
    /\ scheduled_goto_sleep_time = now + 20
    /\ scheduled_sleep_time = 240 * 60
    /\ get_min_awake_time(last_voltage) - Awake # 20

\* C28: every step that commits a sleep calls ui.update_connection_info with
\* period = scheduled_sleep_time and next_connection = 20 +
\* scheduled_sleep_time, and no other step calls it.
C28_CadenceOnCommit ==
    /\ [][Committed
            => /\ "conn_info" \in ev'
               /\ conn_info' = << scheduled_sleep_time',
                                  time_till_sleep_default + scheduled_sleep_time' >>]_vars
    /\ [][("conn_info" \in ev' \/ conn_info' # conn_info) => Committed]_vars

\* The minimum awake guard of maybe_schedule_sleep passes after the step.
C29_GuardPasses ==
    now' - start_time' >= get_min_awake_time(last_voltage') - time_till_sleep_default

\* A call of maybe_schedule_sleep that passes its first two guards
\* broadcasts, whether or not a denial or the immunity then defers it.
C29_BroadcastBeforeBallot ==
    [][(/\ "mss_call" \in ev'
        /\ scheduled_goto_sleep_time = None
        /\ C29_GuardPasses
        /\ failures' = failures)
       => "mss_broadcast" \in ev' /\ g_shutdown_requested' = "True"]_vars

\* C29, as stated: the global tag shutdown_requested is never set to True at
\* a tick at which the awake time is below get_min_awake_time() - 20, and the
\* broadcast precedes the ballot check and the immunity query.
C29_NoBroadcastBeforeMinAwake ==
    /\ [][("mss_broadcast" \in ev' \/ "gts_broadcast" \in ev') => C29_GuardPasses]_vars
    /\ C29_BroadcastBeforeBallot

\* C29, amended: maybe_schedule_sleep never sets the global tag
\* shutdown_requested to True at a tick at which the awake time is below
\* get_min_awake_time() - 20, and its broadcast precedes the ballot check and
\* the immunity query; the broadcast of go_to_sleep is sent for the committed
\* sleep whatever the minimum awake time of that tick is.
C29_NoSchedulingBroadcastBeforeMinAwake ==
    /\ [][("mss_broadcast" \in ev') => C29_GuardPasses]_vars
    /\ C29_BroadcastBeforeBallot
    /\ [][(g_shutdown_requested' = "True" /\ g_shutdown_requested # "True")
            => "mss_broadcast" \in ev' \/ "gts_broadcast" \in ev']_vars

\* A tick at the first awake time that passes the guard has broadcast and was
\* then deferred by a denial.
C29_Witness ==
    /\ "mss_broadcast" \in ev
    /\ g_shutdown_requested = "True"
    /\ scheduled_goto_sleep_time = None
    /\ ~ shutdown_permitted(tags)
    /\ imm_resp = NoQuery
    /\ Awake = get_min_awake_time(last_voltage) - time_till_sleep_default

\* C30: when setup completes the global tag shutdown_requested is False, the
\* tag shutdown_at is None and the shutdown_requested flag of every app entry
\* of the tag store is False, whatever a previous run has left there; setup
\* writes no shutdown_check_ok flag.
C30_BallotResetAtStart ==
    [][(pc = "setup" /\ pc' = "loop")
       => /\ g_shutdown_requested' = "False"
          /\ shutdown_at' = None
          /\ \A a \in Apps :
                /\ tags'[a].shutdown_requested = "False"
                /\ tags'[a].shutdown_check_ok = tags[a].shutdown_check_ok]_vars

\* setup has completed and has left the denial of a voter in place.
C30_Witness ==
    /\ pc = "loop"
    /\ start_time = None
    /\ ev # {}
    /\ g_shutdown_requested = "False"
    /\ shutdown_at = None
    /\ \A a \in Apps : /\ tags[a].shutdown_requested = "False"
                        /\ tags[a].shutdown_check_ok = "False"

\* C31: last_voltage_time is advanced only by a call of update_voltage that
\* obtained a new sample: a tick whose voltage fetch failed leaves it as it
\* was, also when an older good value is retained, so that the next call of
\* update_voltage fetches again.
C31_FailedFetchRetried ==
    [][(IsTick /\ C20_FetchFailed) => last_voltage_time' = last_voltage_time]_vars

\* C32: shutdown_async is called only when the awake time is at least the
\* minimum awake time that applied at the tick that committed the sleep, and
\* so at least the floor of 90 s.
C32_NoCutBeforeMinAwake ==
    ("shutdown_call" \in ev) =>
        /\ commit_min_awake # None
        /\ Awake >= commit_min_awake
        /\ Awake >= abs_min_awake_time

\* The power is cut for a sleep committed under a minimum awake time of 240 s,
\* 60 s after the first tick that could commit it.
C32_Witness ==
    /\ "shutdown_call" \in ev
    /\ commit_min_awake = 240
    /\ Awake = 240 + 40

\* C33: when the voltage stays at or below a sleep threshold, immunity is
\* never active and the platform calls succeed, then under a fair tick loop
\* shutdown_async is eventually called, whatever the voters do.
C33_SleepEventuallyReached == <>shutdown_called

\* The power is cut under a voter that has denied at all times.
C33_Witness ==
    /\ "shutdown_call" \in ev
    /\ denied_always
    /\ ~ shutdown_permitted(tags)
    /\ polls = poll_attempts

\* C34: when shutdown_async is issued while the shutdown_check_ok flag of some
\* voter is False, the poll loop of that run of go_to_sleep has read the
\* ballot all 60 times.
C34_VetoHonouredOrWaitedOut ==
    ("shutdown_call" \in ev /\ ~ shutdown_permitted(tags)) => polls = poll_attempts

\* C35: shutdown_async is called only when the clock has reached the
\* shutdown_at timestamp that this process published last, so the whole grace
\* period lies between the publication and the power cut.
C35_NoCutBeforeDeadline ==
    ("shutdown_call" \in ev) =>
        /\ shutdown_at # None
        /\ shutdown_at >= shutdown_grace_period
        /\ now >= shutdown_at

C35_Witness ==
    /\ "shutdown_call" \in ev
    /\ shutdown_at # None
    /\ now = shutdown_at
    /\ polls > 0

\* C36: once go_to_sleep has armed schedule_shutdown_async(60), no later
\* call of schedule_shutdown_async replaces that deadline.
C36_HardTimerNotOverwritten ==
    [][hard_timer = hard_shutdown_secs => hard_timer' = hard_shutdown_secs]_vars

\* C37: in VictronDevice, at every point where the event loop can switch,
\* data_recv_event is set exactly when last_data is not None; await_data
\* never returns None; an await_data called while last_data is None does not
\* return in that step, and a waiting caller is released only by a recv_data
\* that stores a reading.
C37_EventIffData ==
    /\ [](victron.data_recv_event <=> victron.last_data # None)
    /\ []("await_returned" \in ev => victron.result \in Readings)
    /\ [][("await_called" \in ev' /\ victron.last_data = None)
              => "await_returned" \notin ev']_vars
    /\ [][(victron.waiter = "waiting" /\ victron'.waiter # "waiting")
              => "recv_stored" \in ev']_vars

C37_Witness ==
    /\ "await_returned" \in ev
    /\ victron.blocked_after_reset
    /\ victron.result \in Readings

====
